---- MODULE Spec2Model ----
(***************************************************************************)
(* scripts/local_persistence_crosscheck.py: the cross-language local       *)
(* persistence harness (verify-go / create-python), run as independent     *)
(* processes against one persist path, over the persistent vector          *)
(* collection store the harness calls.  Embedding components are scaled    *)
(* by 100 (0.95 is 95, 1.0 is 100) so that squared L2 distances are exact  *)
(* integers.                                                               *)
(***************************************************************************)
EXTENDS Integers, Sequences, FiniteSets, TLC

VARIABLES
    catalog,   \* names of the collections that exist on the path
    log,       \* per collection name: the flushed entry log, in write order
    lease,     \* the harness processes holding the write lease over the path
    extLease,  \* TRUE while another client of the path holds the write lease
    staged,    \* entries the lease holder has written but not yet flushed
    pc,        \* per harness process: its position in main
    act,       \* per harness process: args.action
    coll,      \* per harness process: args.collection
    loc,       \* per harness process: count, top_id, persisted_document
    printed,   \* per harness process: the JSON lines printed so far
    ret,       \* per harness process: main's return value (-1 before it returns)
    raised,    \* per harness process: the store calls that failed, <<call, kind>>
    seen       \* what the last reopening reader observed

vars == <<catalog, log, lease, extLease, staged, pc, act, coll, loc, printed, ret, raised, seen>>

\* ------------------------------------------------------------------ bounds

\* No run that appends to a log starts once that log holds MaxLog entries.
MaxLog == 5

Procs == {1, 2}
Names == {"c1"}

\* ------------------------------------------------------------------ data

GO_QUERY_EMBEDDING == <<95, 5, 0>>

\* Mutant: the Python query embedding is a copy of the Go one.
PY_QUERY_EMBEDDING_AsGo == <<95, 5, 0>>

PY_QUERY_EMBEDDING == <<5, 95, 0>>

E1 == <<100, 0, 0>>
E2 == <<0, 100, 0>>
E3 == <<0, 0, 100>>

GoIds == <<"go-1", "go-2", "go-3">>
PyIds == <<"py-1", "py-2", "py-3">>
PyDocuments == <<"python document 1", "python document 2", "python document 3">>
PyEmbeddings == <<E1, E2, E3>>
GoDocuments == <<"go document 1", "go document 2", "go document 3">>

UpdatedId == "go-2"
UpdatedDocument == "go document 2 updated by python"
UpdatedEmbedding == E2

\* Ascending (lexicographic) order of the record ids.
IdOrder == GoIds \o PyIds
AllIds == {IdOrder[i] : i \in 1..Len(IdOrder)}
Rank(id) == CHOOSE i \in 1..Len(IdOrder) : IdOrder[i] = id

\* A field an update call does not supply.
Omitted == "<omitted>"

\* ------------------------------------------------------------ the store

Range(s) == {s[i] : i \in 1..Len(s)}

InsertEntry(id, doc, emb, meta) ==
    [kind |-> "insert", id |-> id, document |-> doc, embedding |-> emb, metadata |-> meta]

TombstoneEntry(id) ==
    [kind |-> "tombstone", id |-> id, document |-> "", embedding |-> <<>>, metadata |-> ""]

\* The offset of the latest entry of id in a log, 0 when it has none.
LatestOffset(l, id) ==
    LET at == {i \in 1..Len(l) : l[i].id = id}
    IN  IF at = {} THEN 0 ELSE CHOOSE i \in at : \A j \in at : j <= i

IsLive(l, id) ==
    LatestOffset(l, id) # 0 /\ l[LatestOffset(l, id)].kind # "tombstone"

ReadLatest(l, id) == l[LatestOffset(l, id)]

LiveIds(l) == {id \in AllIds : IsLive(l, id)}

\* Mutant: count counts the entries that are not tombstones, shadowed ones
\* included.
StoreCountEntries(l) == Cardinality({i \in 1..Len(l) : l[i].kind # "tombstone"})

StoreCount(l) == Cardinality(LiveIds(l))

\* update: the merged entry, omitted fields keeping the latest entry's value.
MergedEntry(l, id, doc, emb, meta) ==
    LET old == ReadLatest(l, id)
    IN  [kind |-> "update", id |-> id,
         document |-> IF doc = Omitted THEN old.document ELSE doc,
         embedding |-> IF emb = Omitted THEN old.embedding ELSE emb,
         metadata |-> IF meta = Omitted THEN old.metadata ELSE meta]

SquaredL2(a, b) ==
    (a[1] - b[1]) * (a[1] - b[1]) + (a[2] - b[2]) * (a[2] - b[2])
        + (a[3] - b[3]) * (a[3] - b[3])

\* Strictly closer, ties broken by ascending id.
Closer(l, q, x, y) ==
    LET dx == SquaredL2(q, ReadLatest(l, x).embedding)
        dy == SquaredL2(q, ReadLatest(l, y).embedding)
    IN  dx < dy \/ (dx = dy /\ Rank(x) < Rank(y))

RECURSIVE TopK(_, _, _, _)
TopK(l, q, cands, k) ==
    IF k = 0 \/ cands = {} THEN <<>>
    ELSE LET best == CHOOSE x \in cands : \A y \in cands \ {x} : Closer(l, q, x, y)
         IN  <<best>> \o TopK(l, q, cands \ {best}, k - 1)

\* query: one ranked group of ids per query embedding, in input order.
StoreQuery(l, queries, n) ==
    [i \in 1..Len(queries) |-> TopK(l, queries[i], LiveIds(l), n)]

RECURSIVE StoreGet(_, _)
\* get: the documents of the ids that are live, absent ids left out.
StoreGet(l, ids) ==
    IF ids = <<>> THEN <<>>
    ELSE (IF IsLive(l, Head(ids)) THEN <<ReadLatest(l, Head(ids)).document>> ELSE <<>>)
             \o StoreGet(l, Tail(ids))

\* Mutant: a reader also resolves the entries a writer has not flushed yet.
SnapshotUnflushed(c) == log[c] \o staged

\* What a reader resolves for a collection: the last fully flushed log.
Snapshot(c) == log[c]

\* ------------------------------------------------- the harness: results

NoLocals == [count |-> 0, top_id |-> "", persisted_document |-> ""]

\* One shape for every printed result; a key a result does not carry is "",
\* 0 or <<>>.
Result(status, action, collection, count, top_id, updated_id, updated_document, ids, error) ==
    [status |-> status, action |-> action, collection |-> collection, count |-> count,
     top_id |-> top_id, updated_id |-> updated_id, updated_document |-> updated_document,
     ids |-> ids, error |-> error]

VerifyGoResult(p) ==
    Result("success", "verify-go", coll[p], loc[p].count, loc[p].top_id, UpdatedId,
           loc[p].persisted_document, <<>>, "")

CreatePythonResult(p, count) ==
    Result("success", "create-python", coll[p], count, loc[p].top_id, "", "", PyIds, "")

ErrorResult(p, message) ==
    Result("error", act[p], coll[p], 0, "", "", "", <<>>, message)

_extract_top_id(ids) ==
    IF ids = <<>> THEN ""
    ELSE IF ids[1] = <<>> THEN ""
    ELSE ids[1][1]

\* -------------------------------------------- the harness: control flow

\* The statement after a store call that returned (or whose exception was
\* swallowed).
AfterCall(call) ==
    CASE call = "get_collection" -> "count"
      [] call = "count" -> "query"
      [] call = "query" -> "update"
      [] call = "update" -> "get"
      [] call = "get" -> "return"
      [] call = "delete_collection" -> "create_collection"
      [] call = "create_collection" -> "add"
      [] call = "add" -> "py_query"
      [] call = "py_query" -> "py_count"

AfterOpen(action) ==
    IF action = "verify-go" THEN "get_collection" ELSE "delete_collection"

\* The store call a position stands for.
CallAt(at) ==
    IF at = "py_query" THEN "query" ELSE IF at = "py_count" THEN "count" ELSE at

MutatingCalls == {"delete_collection", "create_collection", "add", "update"}

\* Mutant: the update call of verify-go sits in a try/except-pass as well.
SwallowedAlsoUpdate(action, call) ==
    \/ action = "create-python" /\ call = "delete_collection"
    \/ action = "verify-go" /\ call = "update"

\* Mutant: no exception is swallowed, delete_collection's included.
SwallowedNever(action, call) == FALSE

\* try: client.delete_collection(...) except Exception: pass
Swallowed(action, call) ==
    action = "create-python" /\ call = "delete_collection"

\* Mutant: the handler prints the error result and falls through to return 0.
MainExceptReturnsZero(p, message) ==
    /\ pc' = [pc EXCEPT ![p] = "done"]
    /\ printed' = [printed EXCEPT ![p] = Append(@, ErrorResult(p, message))]
    /\ ret' = [ret EXCEPT ![p] = 0]

\* except Exception as exc: print(json.dumps({"status": "error", ...})); return 1
MainExcept(p, message) ==
    /\ pc' = [pc EXCEPT ![p] = "done"]
    /\ printed' = [printed EXCEPT ![p] = Append(@, ErrorResult(p, message))]
    /\ ret' = [ret EXCEPT ![p] = 1]

\* A store call of p fails with an error of the given kind: the exception is
\* swallowed where the call sits in a try/except-pass, and otherwise reaches
\* main's handler, which prints the error result and returns 1.
Throw(p, kind) ==
    /\ raised' = [raised EXCEPT ![p] = @ \cup {<<CallAt(pc[p]), kind>>}]
    /\ IF Swallowed(act[p], CallAt(pc[p]))
       THEN /\ pc' = [pc EXCEPT ![p] = AfterCall(pc[p])]
            /\ UNCHANGED <<printed, ret>>
       ELSE MainExcept(p, kind)

Returns(p) ==
    /\ pc' = [pc EXCEPT ![p] = AfterCall(pc[p])]
    /\ UNCHANGED <<printed, ret, raised>>

Quiet == \A q \in Procs : pc[q] = "idle"

\* Mutant: the lease is granted without looking at who holds it.
LeaseFreeUnchecked == TRUE

LeaseFree == lease = {} /\ ~extLease

\* ------------------------------------------------------------ actions

\* A harness process is started with --action a --collection c.
Start(p, a, c) ==
    /\ pc[p] = "idle"
    /\ a = "verify-go" => Len(log[c]) < MaxLog
    /\ pc' = [pc EXCEPT ![p] = "open"]
    /\ act' = [act EXCEPT ![p] = a]
    /\ coll' = [coll EXCEPT ![p] = c]
    /\ UNCHANGED <<catalog, log, lease, extLease, staged, loc, printed, ret, raised, seen>>

\* chromadb.PersistentClient(path=persist_path)
Open(p) ==
    /\ pc[p] = "open"
    /\ pc' = [pc EXCEPT ![p] = AfterOpen(act[p])]
    /\ UNCHANGED <<catalog, log, lease, extLease, staged, act, coll, loc, printed, ret, raised, seen>>

OpenFails(p) ==
    /\ pc[p] = "open"
    /\ Throw(p, "IOError")
    /\ UNCHANGED <<catalog, log, lease, extLease, staged, act, coll, loc, seen>>

\* client.get_collection(collection_name)
GetCollection(p) ==
    /\ pc[p] = "get_collection"
    /\ IF coll[p] \in catalog THEN Returns(p) ELSE Throw(p, "NotFound")
    /\ UNCHANGED <<catalog, log, lease, extLease, staged, act, coll, loc, seen>>

\* count = collection.count()
VerifyCount(p) ==
    /\ pc[p] = "count"
    /\ IF coll[p] \in catalog
       THEN /\ loc' = [loc EXCEPT ![p].count = StoreCount(Snapshot(coll[p]))]
            /\ Returns(p)
       ELSE /\ Throw(p, "NotFound")
            /\ UNCHANGED loc
    /\ UNCHANGED <<catalog, log, lease, extLease, staged, act, coll, seen>>

\* query = collection.query(query_embeddings=[...], n_results=1, ...)
\* top_id = _extract_top_id(query)
Query(p, at, embedding) ==
    /\ pc[p] = at
    /\ IF coll[p] \in catalog
       THEN /\ loc' = [loc EXCEPT ![p].top_id =
                          _extract_top_id(StoreQuery(Snapshot(coll[p]), <<embedding>>, 1))]
            /\ Returns(p)
       ELSE /\ Throw(p, "NotFound")
            /\ UNCHANGED loc
    /\ UNCHANGED <<catalog, log, lease, extLease, staged, act, coll, seen>>

VerifyQuery(p) == Query(p, "query", GO_QUERY_EMBEDDING)

PythonQuery(p) == Query(p, "py_query", PY_QUERY_EMBEDDING)

\* Mutant: the get asks for another id than the one just updated.
VerifyGetOtherId(p) ==
    /\ pc[p] = "get"
    /\ IF coll[p] \in catalog
       THEN /\ LET docs == StoreGet(Snapshot(coll[p]), <<"go-1">>)
               IN  loc' = [loc EXCEPT ![p].persisted_document =
                              IF docs # <<>> THEN docs[1] ELSE ""]
            /\ Returns(p)
       ELSE /\ Throw(p, "NotFound")
            /\ UNCHANGED loc
    /\ UNCHANGED <<catalog, log, lease, extLease, staged, act, coll, seen>>

\* get_result = collection.get(ids=[updated_id], include=["documents"])
\* docs = get_result.get("documents") or []; persisted_document = docs[0] if docs
VerifyGet(p) ==
    /\ pc[p] = "get"
    /\ IF coll[p] \in catalog
       THEN /\ LET docs == StoreGet(Snapshot(coll[p]), <<UpdatedId>>)
               IN  loc' = [loc EXCEPT ![p].persisted_document =
                              IF docs # <<>> THEN docs[1] ELSE ""]
            /\ Returns(p)
       ELSE /\ Throw(p, "NotFound")
            /\ UNCHANGED loc
    /\ UNCHANGED <<catalog, log, lease, extLease, staged, act, coll, seen>>

\* return {...} of verify_go_collection, then main: status, print, return 0
VerifyReturn(p) ==
    /\ pc[p] = "return"
    /\ pc' = [pc EXCEPT ![p] = "done"]
    /\ printed' = [printed EXCEPT ![p] = Append(@, VerifyGoResult(p))]
    /\ ret' = [ret EXCEPT ![p] = 0]
    /\ UNCHANGED <<catalog, log, lease, extLease, staged, act, coll, loc, raised, seen>>

\* return {..., "count": collection.count(), ...} of create_python_collection,
\* then main: status, print, return 0
PythonCountReturn(p) ==
    /\ pc[p] = "py_count"
    /\ IF coll[p] \in catalog
       THEN /\ pc' = [pc EXCEPT ![p] = "done"]
            /\ printed' = [printed EXCEPT ![p] =
                              Append(@, CreatePythonResult(p, StoreCount(Snapshot(coll[p]))))]
            /\ ret' = [ret EXCEPT ![p] = 0]
            /\ UNCHANGED raised
       ELSE Throw(p, "NotFound")
    /\ UNCHANGED <<catalog, log, lease, extLease, staged, act, coll, loc, seen>>

\* main has returned: the process is gone and another run may take its place.
Exit(p) ==
    /\ pc[p] = "done"
    /\ pc' = [pc EXCEPT ![p] = "idle"]
    /\ act' = [act EXCEPT ![p] = ""]
    /\ coll' = [coll EXCEPT ![p] = ""]
    /\ loc' = [loc EXCEPT ![p] = NoLocals]
    /\ printed' = [printed EXCEPT ![p] = <<>>]
    /\ ret' = [ret EXCEPT ![p] = -1]
    /\ raised' = [raised EXCEPT ![p] = {}]
    /\ UNCHANGED <<catalog, log, lease, extLease, staged, seen>>

\* ------------------------------------------- actions: the mutating calls

\* A mutating call takes the exclusive write lease over the path.
Acquire(p) ==
    /\ pc[p] \in MutatingCalls
    /\ p \notin lease
    /\ LeaseFree
    /\ lease' = lease \cup {p}
    /\ UNCHANGED <<catalog, log, extLease, staged, pc, act, coll, loc, printed, ret, raised, seen>>

\* The bounded wait for the lease ends while someone else still holds it.
LockTimeout(p) ==
    /\ pc[p] \in MutatingCalls
    /\ p \notin lease
    /\ ~LeaseFree
    /\ Throw(p, "LockTimeout")
    /\ UNCHANGED <<catalog, log, lease, extLease, staged, act, coll, loc, seen>>

\* A write or flush of the call fails: nothing of the call becomes visible,
\* the lease is released.
WriteFails(p) ==
    /\ p \in lease
    /\ lease' = lease \ {p}
    /\ staged' = <<>>
    /\ Throw(p, "IOError")
    /\ UNCHANGED <<catalog, log, extLease, act, coll, loc, seen>>

\* client.delete_collection(collection_name)
DeleteCollection(p) ==
    /\ p \in lease
    /\ pc[p] = "delete_collection"
    /\ lease' = lease \ {p}
    /\ IF coll[p] \in catalog
       THEN /\ catalog' = catalog \ {coll[p]}
            /\ log' = [log EXCEPT ![coll[p]] = <<>>]
            /\ Returns(p)
       ELSE /\ Throw(p, "NotFound")
            /\ UNCHANGED <<catalog, log>>
    /\ UNCHANGED <<extLease, staged, act, coll, loc, seen>>

\* collection = client.create_collection(name=collection_name)
CreateCollection(p) ==
    /\ p \in lease
    /\ pc[p] = "create_collection"
    /\ lease' = lease \ {p}
    /\ IF coll[p] \notin catalog
       THEN /\ catalog' = catalog \cup {coll[p]}
            /\ log' = [log EXCEPT ![coll[p]] = <<>>]
            /\ Returns(p)
       ELSE /\ Throw(p, "AlreadyExists")
            /\ UNCHANGED <<catalog, log>>
    /\ UNCHANGED <<extLease, staged, act, coll, loc, seen>>

\* The insert entries of add(ids=ids, documents=documents, embeddings=embeddings).
PyBatch == [i \in 1..Len(PyIds) |-> InsertEntry(PyIds[i], PyDocuments[i], PyEmbeddings[i], "")]

\* collection.add(ids=ids, documents=documents, embeddings=embeddings): one
\* insert entry per record is written, and the batch is flushed as a whole.
Add(p) ==
    /\ p \in lease
    /\ pc[p] = "add"
    /\ IF coll[p] \notin catalog
       THEN /\ Throw(p, "NotFound")
            /\ lease' = lease \ {p}
            /\ UNCHANGED <<log, staged>>
       ELSE IF \E i \in 1..Len(PyIds) : IsLive(log[coll[p]], PyIds[i])
       THEN /\ Throw(p, "DuplicateId")
            /\ lease' = lease \ {p}
            /\ UNCHANGED <<log, staged>>
       ELSE IF Len(staged) < Len(PyIds)
       THEN /\ staged' = Append(staged, PyBatch[Len(staged) + 1])
            /\ UNCHANGED <<log, lease, pc, printed, ret, raised>>
       ELSE /\ log' = [log EXCEPT ![coll[p]] = @ \o staged]
            /\ staged' = <<>>
            /\ lease' = lease \ {p}
            /\ Returns(p)
    /\ UNCHANGED <<catalog, extLease, act, coll, loc, seen>>

\* The store's check that an id to update has a live entry.
UpdateTargetFound(l, id) == IsLive(l, id)

\* collection.update(ids=[updated_id], documents=[updated_document],
\*                   embeddings=[[0.0, 1.0, 0.0]])
UpdateCall(p, id, document, embedding) ==
    /\ p \in lease
    /\ pc[p] = "update"
    /\ lease' = lease \ {p}
    /\ IF coll[p] \in catalog /\ UpdateTargetFound(log[coll[p]], id)
       THEN /\ log' = [log EXCEPT ![coll[p]] =
                          Append(@, MergedEntry(@, id, document, embedding, Omitted))]
            /\ Returns(p)
       ELSE /\ Throw(p, "NotFound")
            /\ UNCHANGED log
    /\ UNCHANGED <<catalog, extLease, staged, act, coll, loc, seen>>

\* Mutant: the update is issued for another id than updated_id.
UpdateOtherId(p) == UpdateCall(p, "go-1", UpdatedDocument, UpdatedEmbedding)

Update(p) == UpdateCall(p, UpdatedId, UpdatedDocument, UpdatedEmbedding)

\* ------------------------------------------ actions: the path's other clients

\* Another client of the path takes the write lease for a call of its own.
ExtAcquire ==
    /\ LeaseFree
    /\ extLease' = TRUE
    /\ UNCHANGED <<catalog, log, lease, staged, pc, act, coll, loc, printed, ret, raised, seen>>

ExtRelease ==
    /\ extLease
    /\ extLease' = FALSE
    /\ UNCHANGED <<catalog, log, lease, staged, pc, act, coll, loc, printed, ret, raised, seen>>

Permutations3 == {<<1, 2, 3>>, <<1, 3, 2>>, <<2, 1, 3>>, <<2, 3, 1>>, <<3, 1, 2>>, <<3, 2, 1>>}

\* The Go client creates the collection and adds its three records, the unit
\* vectors assigned to go-1, go-2, go-3 in some order.
GoCreate(c, perm) ==
    /\ LeaseFree
    /\ c \notin catalog
    /\ catalog' = catalog \cup {c}
    /\ log' = [log EXCEPT ![c] =
                  [i \in 1..3 |-> InsertEntry(GoIds[i], GoDocuments[i],
                                              PyEmbeddings[perm[i]], "go metadata")]]
    /\ UNCHANGED <<lease, extLease, staged, pc, act, coll, loc, printed, ret, raised, seen>>

\* The Go client removes one of its records.
GoRemove(c, id) ==
    /\ LeaseFree
    /\ c \in catalog
    /\ Len(log[c]) < MaxLog
    /\ IsLive(log[c], id)
    /\ log' = [log EXCEPT ![c] = Append(@, TombstoneEntry(id))]
    /\ UNCHANGED <<catalog, lease, extLease, staged, pc, act, coll, loc, printed, ret, raised, seen>>

NothingSeen == [collection |-> "", found |-> FALSE, count |-> 0, documents |-> <<>>]

\* A process reopens the path and reads the collection: count and
\* get(ids=["go-2"]).
Reopen(c) ==
    /\ seen' = IF c \in catalog
               THEN [collection |-> c, found |-> TRUE,
                     count |-> StoreCount(Snapshot(c)),
                     documents |-> StoreGet(Snapshot(c), <<UpdatedId>>)]
               ELSE [NothingSeen EXCEPT !.collection = c]
    /\ UNCHANGED <<catalog, log, lease, extLease, staged, pc, act, coll, loc, printed, ret, raised>>

\* ------------------------------------------------------- specifications

Init ==
    /\ catalog = {}
    /\ log = [c \in Names |-> <<>>]
    /\ lease = {}
    /\ extLease = FALSE
    /\ staged = <<>>
    /\ pc = [p \in Procs |-> "idle"]
    /\ act = [p \in Procs |-> ""]
    /\ coll = [p \in Procs |-> ""]
    /\ loc = [p \in Procs |-> NoLocals]
    /\ printed = [p \in Procs |-> <<>>]
    /\ ret = [p \in Procs |-> -1]
    /\ raised = [p \in Procs |-> {}]
    /\ seen = NothingSeen

Actions == {"verify-go", "create-python"}

Step(p) ==
    \/ Open(p) \/ OpenFails(p)
    \/ GetCollection(p) \/ VerifyCount(p) \/ VerifyQuery(p) \/ VerifyGet(p) \/ VerifyReturn(p)
    \/ PythonQuery(p) \/ PythonCountReturn(p)
    \/ Acquire(p) \/ LockTimeout(p) \/ WriteFails(p)
    \/ DeleteCollection(p) \/ CreateCollection(p) \/ Add(p) \/ Update(p)
    \/ Exit(p)

\* One harness process at a time: a run starts, and the Go client writes, only
\* while no harness process is running.
Next ==
    \/ \E p \in Procs, a \in Actions, c \in Names : Quiet /\ Start(p, a, c)
    \/ \E p \in Procs : Step(p)
    \/ ExtAcquire \/ ExtRelease
    \/ \E c \in Names, perm \in Permutations3 : Quiet /\ GoCreate(c, perm)
    \/ \E c \in Names, i \in 1..3 : Quiet /\ GoRemove(c, GoIds[i])
    \/ \E c \in Names : Reopen(c)

Spec == Init /\ [][Next]_vars

\* Harness processes and the Go client (creating the collection with its
\* records in id order) run concurrently against the path.
NextConcurrent ==
    \/ \E p \in Procs, a \in Actions, c \in Names : Start(p, a, c)
    \/ \E p \in Procs : Step(p)
    \/ \E c \in Names : GoCreate(c, <<1, 2, 3>>)

SpecConcurrent == Init /\ [][NextConcurrent]_vars

\* ------------------------------------------------------------- claims

Done(p) == pc[p] = "done"

\* The one result a finished run printed.
Out(p) == printed[p][1]

Succeeded(p, action) ==
    Done(p) /\ act[p] = action /\ ret[p] = 0 /\ Out(p).status = "success"

\* The failures of p's store calls other than delete_collection inside
\* create-python.
Failures(p) ==
    {f \in raised[p] : ~(act[p] = "create-python" /\ f[1] = "delete_collection")}

\* C10: every run of main produces exactly one outcome (nothing printed and
\* nothing returned before it ends, one result and one return value when it
\* has); it returns 0 with status "success" if and only if no store call
\* other than create-python's delete_collection failed, and otherwise returns
\* 1 with status "error" carrying the action, the collection name and the
\* message of the failed call.
C10_OutcomeContract ==
    \A p \in Procs :
        /\ ~Done(p) => printed[p] = <<>> /\ ret[p] = -1
        /\ Done(p) =>
            /\ Len(printed[p]) = 1
            /\ ret[p] \in {0, 1}
            /\ (ret[p] = 0 /\ Out(p).status = "success") <=> Failures(p) = {}
            /\ Failures(p) # {} =>
                /\ ret[p] = 1
                /\ Out(p).status = "error"
                /\ Out(p).action = act[p]
                /\ Out(p).collection = coll[p]
                /\ \E f \in Failures(p) : Out(p).error = f[2]

\* A create-python run that printed the success result and returned 0 although
\* its delete_collection failed, no other call of it having failed.
C10_Witness ==
    \E p \in Procs :
        /\ Succeeded(p, "create-python")
        /\ raised[p] = {<<"delete_collection", "NotFound">>}
        /\ printed[p] = <<CreatePythonResult(p, 3)>>

\* C7: a LockTimeout of any mutating call the harness issues
\* (delete_collection, create_collection, add, update) ends the run with the
\* error outcome.
C7_LockTimeoutSurfaced ==
    \A p \in Procs :
        (Done(p) /\ \E call \in MutatingCalls : <<call, "LockTimeout">> \in raised[p])
            => ret[p] = 1 /\ Out(p).status = "error"

\* What a reader sees of a collection: its live ids, each with its document
\* and embedding.
Visible(c) ==
    [id \in LiveIds(log[c]) |->
        [document |-> ReadLatest(log[c], id).document,
         embedding |-> ReadLatest(log[c], id).embedding]]

PythonRecords ==
    [id \in Range(PyIds) |->
        [document |-> PyDocuments[CHOOSE i \in 1..3 : PyIds[i] = id],
         embedding |-> PyEmbeddings[CHOOSE i \in 1..3 : PyIds[i] = id]]]

\* C6: the store never reports a delete of a collection that does not exist
\* as done (the call fails, with NotFound unless the write itself failed) and
\* the harness tolerates it: the run goes on to create_collection with
\* nothing printed, and a create-python run whose only failed call is
\* delete_collection does not end with the error outcome; and whatever the
\* store held before, a create-python run that returns success leaves the
\* named collection existing with exactly the live records py-1, py-2, py-3
\* (so a second run leaves what the first did) and reports count 3.
C6_CreatePythonRerunnable ==
    /\ [][\A p \in Procs :
            (pc[p] = "delete_collection" /\ p \in lease /\ coll[p] \notin catalog
                    /\ pc'[p] # "delete_collection")
              => /\ \/ <<"delete_collection", "NotFound">> \in raised'[p]
                    \/ <<"delete_collection", "IOError">> \in raised'[p]
                 /\ pc'[p] = "create_collection"
                 /\ printed'[p] = <<>>
                 /\ catalog' = catalog /\ log' = log]_vars
    /\ [](\A p \in Procs :
            /\ (Done(p) /\ act[p] = "create-python"
                    /\ raised[p] # {} /\ \A f \in raised[p] : f[1] = "delete_collection")
                  => Succeeded(p, "create-python")
            /\ Succeeded(p, "create-python") =>
                  /\ coll[p] \in catalog
                  /\ Visible(coll[p]) = PythonRecords
                  /\ Out(p).count = 3
                  /\ Out(p).ids = PyIds)

\* A create-python run that succeeded over a collection that did not exist
\* (its delete_collection reported NotFound).
C6_Witness ==
    \E p \in Procs :
        /\ Succeeded(p, "create-python")
        /\ <<"delete_collection", "NotFound">> \in raised[p]
        /\ Visible(coll[p]) = PythonRecords
        /\ Out(p).count = 3

\* C5: when verify-go reaches its update and "go-2" has no live entry, the
\* run can only stay at the update (waiting for or holding the lease) or end;
\* it ends with status "error" and return value 1, never reaching the get,
\* and no step of it changes the catalog or any log.
C5_UpdateNotFoundFails ==
    [][\A p \in Procs :
          (act[p] = "verify-go" /\ pc[p] = "update" /\ ~IsLive(log[coll[p]], "go-2"))
            => /\ pc'[p] \in {"update", "done"}
               /\ pc'[p] = "done" =>
                     /\ ret'[p] = 1
                     /\ Len(printed'[p]) = 1
                     /\ printed'[p][1].status = "error"
                     /\ printed'[p][1].updated_document = ""
                     /\ \E kind \in {"NotFound", "LockTimeout", "IOError"} :
                            /\ <<"update", kind>> \in raised'[p]
                            /\ printed'[p][1].error = kind
               /\ catalog' = catalog
               /\ log' = log]_vars

\* A verify-go run over an existing collection without a live "go-2" that
\* ended with the NotFound error of its update.
C5_Witness ==
    \E p \in Procs :
        /\ Done(p) /\ act[p] = "verify-go" /\ ret[p] = 1
        /\ coll[p] \in catalog
        /\ ~IsLive(log[coll[p]], "go-2")
        /\ StoreCount(log[coll[p]]) = 3
        /\ raised[p] = {<<"update", "NotFound">>}
        /\ Out(p).status = "error" /\ Out(p).error = "NotFound"

\* C3: the update call of verify-go on a live "go-2" makes get(["go-2"])
\* return the document passed to it, with the embedding passed to it and the
\* metadata, which the call does not supply, as it was before; and a
\* verify-go run that succeeds reports as updated_document
\* "go document 2 updated by python", never the older document or "".
C3_UpdateVisible ==
    /\ [][\A p \in Procs :
            (pc[p] = "update" /\ pc'[p] = "get")
              => /\ IsLive(log[coll[p]], "go-2")
                 /\ StoreGet(log'[coll[p]], <<"go-2">>) = <<"go document 2 updated by python">>
                 /\ ReadLatest(log'[coll[p]], "go-2").embedding = <<0, 100, 0>>
                 /\ ReadLatest(log'[coll[p]], "go-2").metadata
                        = ReadLatest(log[coll[p]], "go-2").metadata
                 /\ \A id \in AllIds \ {"go-2"} :
                        /\ IsLive(log'[coll[p]], id) <=> IsLive(log[coll[p]], id)
                        /\ IsLive(log[coll[p]], id) =>
                              ReadLatest(log'[coll[p]], id) = ReadLatest(log[coll[p]], id)]_vars
    /\ [](\A p \in Procs :
            Succeeded(p, "verify-go") =>
                Out(p).updated_document = "go document 2 updated by python")

\* A verify-go run that succeeded over a Go-created collection whose "go-2"
\* had another embedding than the one the update passes: the update is read
\* back and the metadata is kept.
C3_Witness ==
    \E p \in Procs :
        /\ Succeeded(p, "verify-go")
        /\ Out(p).updated_document = "go document 2 updated by python"
        /\ log[coll[p]][2].id = "go-2" /\ log[coll[p]][2].embedding = <<100, 0, 0>>
        /\ ReadLatest(log[coll[p]], "go-2").kind = "update"
        /\ ReadLatest(log[coll[p]], "go-2").metadata = "go metadata"

EverAdded(l) == {l[i].id : i \in {j \in 1..Len(l) : l[j].kind = "insert"}}

Removed(l) == {l[i].id : i \in {j \in 1..Len(l) : l[j].kind = "tombstone"}}

\* C4: count() of a collection is the number of distinct ids ever added to it
\* minus the number of ids removed, however many update entries its log
\* holds; and the count a verify-go run read before its update (the one it
\* reports) is the collection's count after the update.
C4_CountInvariant ==
    /\ \A c \in catalog :
          StoreCount(log[c]) = Cardinality(EverAdded(log[c])) - Cardinality(Removed(log[c]))
    /\ \A p \in Procs :
          (act[p] = "verify-go" /\ pc[p] \in {"get", "return"})
              => loc[p].count = StoreCount(log[coll[p]])
    /\ \A p \in Procs :
          Succeeded(p, "verify-go") => Out(p).count = StoreCount(log[coll[p]])

\* The second successful verify-go run over a Go-created collection: two
\* update entries in the log, and the count is still 3.
C4_Witness ==
    \E p \in Procs :
        /\ Succeeded(p, "verify-go")
        /\ Out(p).count = 3
        /\ Cardinality({i \in 1..Len(log[coll[p]]) : log[coll[p]][i].kind = "update"}) = 2

\* The live records are exactly three, with embeddings [1,0,0], [0,1,0] and
\* [0,0,1].
Orthonormal(l) ==
    /\ Cardinality(LiveIds(l)) = 3
    /\ {ReadLatest(l, id).embedding : id \in LiveIds(l)} = {<<100, 0, 0>>, <<0, 100, 0>>, <<0, 0, 100>>}

IdWithEmbedding(l, e) == CHOOSE id \in LiveIds(l) : ReadLatest(l, id).embedding = e

\* C2: over a collection whose live records are exactly three ids with
\* embeddings [1,0,0], [0,1,0], [0,0,1], query with [0.95,0.05,0] and
\* n_results=1 returns the id of [1,0,0] and query with [0.05,0.95,0] the id
\* of [0,1,0]; a create-python run that succeeds reports top_id "py-2"; and
\* the top_id verify-go holds after its query over such a collection is the
\* id whose embedding is [1,0,0].
C2_QueryOrdering ==
    /\ \A c \in catalog :
          Orthonormal(log[c]) =>
              /\ StoreQuery(log[c], <<(<<95, 5, 0>>)>>, 1)
                    = <<(<<IdWithEmbedding(log[c], <<100, 0, 0>>)>>)>>
              /\ StoreQuery(log[c], <<(<<5, 95, 0>>)>>, 1)
                    = <<(<<IdWithEmbedding(log[c], <<0, 100, 0>>)>>)>>
    /\ \A p \in Procs :
          Succeeded(p, "create-python") => Out(p).top_id = "py-2"
    /\ \A p \in Procs :
          (act[p] = "verify-go" /\ pc[p] = "update" /\ Orthonormal(log[coll[p]]))
              => loc[p].top_id = IdWithEmbedding(log[coll[p]], <<100, 0, 0>>)

\* verify-go has queried a Go-created collection in which [1,0,0] is the
\* embedding of "go-3", and holds "go-3" as top_id.
C2_Witness ==
    \E p \in Procs :
        /\ act[p] = "verify-go" /\ pc[p] = "update"
        /\ Orthonormal(log[coll[p]])
        /\ IdWithEmbedding(log[coll[p]], <<100, 0, 0>>) = "go-3"
        /\ loc[p].top_id = "go-3"

\* C1: a verify-go run that succeeds over a collection created with three
\* records, none removed since, reports count 3; and a process that reopens
\* the path once that run has returned reads, for the updated id "go-2", the
\* document the run passed to update, and the count the run reported.
C1_CrossProcessDurability ==
    /\ [](\A p \in Procs :
            (Succeeded(p, "verify-go") /\ Removed(log[coll[p]]) = {}) => Out(p).count = 3)
    /\ [][\A p \in Procs :
            (Succeeded(p, "verify-go") /\ seen' # seen /\ seen'.collection = coll[p])
              => /\ seen'.found
                 /\ seen'.documents = <<"go document 2 updated by python">>
                 /\ seen'.count = Out(p).count]_vars

\* A verify-go run over a Go-created collection has returned success with
\* count 3, and a reopening reader has then read the updated document.
C1_Witness ==
    \E p \in Procs :
        /\ Succeeded(p, "verify-go")
        /\ Out(p).count = 3
        /\ log[coll[p]][1] = InsertEntry("go-1", "go document 1", log[coll[p]][1].embedding, "go metadata")
        /\ seen.found /\ seen.collection = coll[p] /\ seen.count = 3
        /\ seen.documents = <<"go document 2 updated by python">>

\* C8: at most one client holds the write lease over the path at any time:
\* never two harness processes, never a harness process together with
\* another client; whoever holds it is inside a mutating call, and only the
\* holder has unflushed entries.
C8_WritersSerialized ==
    /\ Cardinality(lease) <= 1
    /\ extLease => lease = {}
    /\ \A p \in lease : pc[p] \in MutatingCalls
    /\ staged # <<>> => \E p \in lease : pc[p] = "add"

\* A create-python process holds the lease inside its add while a verify-go
\* process stands at its update without the lease.
C8_Witness ==
    \E p, q \in Procs :
        /\ lease = {p} /\ act[p] = "create-python" /\ pc[p] = "add" /\ Len(staged) = 2
        /\ act[q] = "verify-go" /\ pc[q] = "update" /\ q \notin lease

\* The counts a reader may get for collection c: that of the flushed log,
\* and, while an add to c has entries not yet flushed, that of the log with
\* the whole batch.
ConsistentCounts(c) ==
    {StoreCount(log[c])}
        \cup (IF staged # <<>> /\ \E w \in lease : coll[w] = c
              THEN {StoreCount(log[c] \o PyBatch)} ELSE {})

====
